---- MODULE Spec2Model ----
(***************************************************************************)
(* Mamash editor: tokenizer and diagnostic engine.                         *)
(*                                                                         *)
(* A text is a sequence of UTF-16 code units.  A code unit is written as   *)
(* a string: the ASCII characters stand for themselves, a Hebrew letter is *)
(* written by its name ("yod", "he", "alef", ...).  Offsets are 0-based as *)
(* in the source; the k-th code unit of s (0-based) is s[k + 1].           *)
(***************************************************************************)
EXTENDS Integers, Sequences, FiniteSets, TLC

\* ------------------------------------------------------------------------
\* Bounds of the model
\* ------------------------------------------------------------------------
MaxLen == 5      \* longest text of the character-level input set
MaxWords == 3    \* most lexemes in a text of the word-level input set
MaxCalls == 2    \* lintText calls one call site issues on its text

\* ------------------------------------------------------------------------
\* Code units and the character classes of the tokenizers
\* ------------------------------------------------------------------------
HebrewLetters ==
  {"alef", "bet", "gimel", "dalet", "he", "vav", "zayin", "het", "tet",
   "yod", "kaf", "lamed", "memsofit", "nunsofit", "qof", "resh", "shin", "tav"}
LatinLetters == {"x", "y"}
Digits == {"5", "3"}
WhiteSpace == {" ", "\n"}
OperatorChars == {"+", "-", "*", "/", "=", ":"}

\* tokenizer.ts:23-24, the tokenizer the lint engine imports
hebrewIdStart == HebrewLetters \cup {"_"}
hebrewIdPart == HebrewLetters \cup Digits \cup {"_"}
\* part_001:18-19, the tokenizer with the greedy comment scan
hebrewIdStartLatin == HebrewLetters \cup LatinLetters \cup {"_"}
hebrewIdPartLatin == HebrewLetters \cup LatinLetters \cup Digits \cup {"_"}

kwIf == <<"alef", "memsofit">>
kwThen == <<"alef", "zayin", "yod">>
kwElse == <<"alef", "het", "resh", "tav">>
kwForEach == <<"lamed", "kaf", "lamed">>
kwLet == <<"yod", "he", "alef">>
kwEquals == <<"shin", "vav", "he">>
kwGreater == <<"gimel", "dalet", "vav", "lamed">>
kwLess == <<"qof", "tet", "nunsofit">>
KEYWORDS ==
  {kwIf, kwThen, kwElse, kwForEach, kwLet, kwEquals, kwGreater, kwLess}

\* ------------------------------------------------------------------------
\* String helpers (JavaScript semantics, 0-based offsets)
\* ------------------------------------------------------------------------
CharAt(s, k) == s[k + 1]
Slice(s, a, b) == SubSeq(s, a + 1, b)

RECURSIVE RunEnd(_, _, _)
\* let j = ...; while (j < len && class.test(s[j])) j++
RunEnd(s, j, class) ==
  IF j < Len(s) /\ CharAt(s, j) \in class THEN RunEnd(s, j + 1, class) ELSE j

RECURSIVE CommentScan(_, _)
\* part_001:41  while (j + 1 < len && !(s[j] === "*" && s[j + 1] === "/")) j++
CommentScan(s, j) ==
  IF j + 1 < Len(s) /\ ~(CharAt(s, j) = "*" /\ CharAt(s, j + 1) = "/")
  THEN CommentScan(s, j + 1)
  ELSE j

\* ------------------------------------------------------------------------
\* Tokens
\* ------------------------------------------------------------------------
ValTok(type, s, a, b) ==
  [type |-> type, value |-> Slice(s, a, b), from |-> a, to |-> b]
BareTok(type, a, b) == [type |-> type, from |-> a, to |-> b]

WordTok(s, a, b) ==
  ValTok(IF Slice(s, a, b) \in KEYWORDS THEN "Keyword" ELSE "Ident", s, a, b)

\* The rules both tokenizers share, applied at offset i < Len(s): one token.
\* idStart/idPart are the identifier classes of the tokenizer that calls it.
PlainToken(s, i, idStart, idPart) ==
  LET ch == CharAt(s, i) IN
  IF ch \in WhiteSpace THEN ValTok("WS", s, i, RunEnd(s, i + 1, WhiteSpace))
  ELSE IF ch = "." THEN BareTok("Period", i, i + 1)
  ELSE IF ch = "(" THEN BareTok("ParenOpen", i, i + 1)
  ELSE IF ch = ")" THEN BareTok("ParenClose", i, i + 1)
  ELSE IF ch \in OperatorChars THEN ValTok("Op", s, i, i + 1)
  ELSE IF ch \in Digits THEN ValTok("Number", s, i, RunEnd(s, i + 1, Digits))
  ELSE IF ch \in idStart THEN WordTok(s, i, RunEnd(s, i + 1, idPart))
  ELSE ValTok("Unknown", s, i, i + 1)

\* ------------------------------------------------------------------------
\* The tokenizer with the greedy comment scan (part_001:32-119), as the
\* generator it is: one token per step.
\* ------------------------------------------------------------------------
GreedyComment(s, i) ==
  LET j == CommentScan(s, i + 2) IN
  IF j + 1 < Len(s)
  THEN ValTok("Comment", s, i, j + 2)
  ELSE ValTok("Comment", s, i, Len(s))

GreedyToken(s, i) ==
  IF CharAt(s, i) = "/" /\ i + 1 < Len(s) /\ CharAt(s, i + 1) = "*"
  THEN GreedyComment(s, i)
  ELSE PlainToken(s, i, hebrewIdStartLatin, hebrewIdPartLatin)

GreedyInit == [pc |-> "scan", i |-> 0, out |-> <<>>]

GreedyStep(s, g) ==
  IF g.i < Len(s)
  THEN LET tok == GreedyToken(s, g.i) IN
       [g EXCEPT !.i = tok.to, !.out = Append(@, tok)]
  ELSE [g EXCEPT !.pc = "done"]

\* ------------------------------------------------------------------------
\* The tokenizer the lint engine imports (tokenizer.ts:37-171): a pre-scan
\* that counts comment delimiters, a sort-and-merge of the intervals found,
\* the Comment tokens, then the main scan that skips the intervals.
\* ------------------------------------------------------------------------
Interval(a, b) == [from |-> a, to |-> b]

StackInit ==
  [pc |-> "prescan", i |-> 0, commentCount |-> 0, commentStart |-> 0,
   commentStack |-> <<>>, intervalIndex |-> 0, out |-> <<>>]

\* tokenizer.ts:44-65, one iteration of the pre-scan loop
PreScanIter(s, g) ==
  LET i == g.i
      ch == CharAt(s, i)
  IN
  IF ch = "/" /\ i + 1 < Len(s) /\ CharAt(s, i + 1) = "*"
  THEN LET cc == g.commentCount + 1 IN
       [g EXCEPT !.commentCount = cc,
                 !.commentStart = IF g.commentStart = 0 /\ cc = 1 THEN i ELSE @,
                 !.i = i + 2]
  ELSE IF ch = "*" /\ i + 1 < Len(s) /\ CharAt(s, i + 1) = "/"
  THEN LET cc == g.commentCount - 1 IN
       IF cc = 0
       THEN [g EXCEPT !.commentCount = 0,
                      !.commentStack = Append(@, Interval(g.commentStart, i + 2)),
                      !.commentStart = 0,
                      !.i = i + 2]
       ELSE IF cc < 0
       THEN [g EXCEPT !.commentCount = 0,
                      !.commentStack = Append(@, Interval(g.commentStart, i + 2)),
                      !.commentStart = 0,
                      !.i = i + 2]
       ELSE [g EXCEPT !.commentCount = cc, !.i = i + 2]
  ELSE [g EXCEPT !.i = i + 1]

RECURSIVE InsertByFrom(_, _)
InsertByFrom(sorted, x) ==
  IF sorted = <<>> THEN <<x>>
  ELSE IF sorted[Len(sorted)].from <= x.from THEN Append(sorted, x)
  ELSE Append(InsertByFrom(SubSeq(sorted, 1, Len(sorted) - 1), x),
              sorted[Len(sorted)])

RECURSIVE SortByFrom(_)
\* tokenizer.ts:70  [...commentStack].sort((a, b) => a.from - b.from), stable
SortByFrom(seq) ==
  IF seq = <<>> THEN <<>>
  ELSE InsertByFrom(SortByFrom(SubSeq(seq, 1, Len(seq) - 1)), seq[Len(seq)])

Max(a, b) == IF a >= b THEN a ELSE b
Min(a, b) == IF a <= b THEN a ELSE b

RECURSIVE MergeFrom(_, _, _)
\* tokenizer.ts:74-84
MergeFrom(sorted, k, merged) ==
  IF k > Len(sorted) THEN merged
  ELSE LET lastMerged == merged[Len(merged)]
           current == sorted[k]
       IN
       IF current.from < lastMerged.to
       THEN MergeFrom(sorted, k + 1,
              [merged EXCEPT ![Len(merged)].to = Max(lastMerged.to, current.to)])
       ELSE MergeFrom(sorted, k + 1, Append(merged, current))

\* tokenizer.ts:68-86
MergeIntervals(commentStack) ==
  IF Len(commentStack) > 0
  THEN LET sortedIntervals == SortByFrom(commentStack) IN
       MergeFrom(sortedIntervals, 2, <<sortedIntervals[1]>>)
  ELSE commentStack

\* tokenizer.ts:102-107, the test that makes the main scan skip a comment
InComment(g) ==
  /\ g.intervalIndex < Len(g.commentStack)
  /\ g.i >= g.commentStack[g.intervalIndex + 1].from

\* One step of the generator: a loop iteration, or the code between two loops.
StackStep(s, g) ==
  IF g.pc = "prescan" THEN
    IF g.i < Len(s) THEN PreScanIter(s, g)
    ELSE [g EXCEPT !.commentStack = MergeIntervals(@), !.i = 0, !.pc = "emit"]
  ELSE IF g.pc = "emit" THEN
    IF g.i < Len(g.commentStack)
    THEN LET cur == g.commentStack[g.i + 1] IN
         [g EXCEPT !.out = Append(@, ValTok("Comment", s, cur.from, cur.to)),
                   !.i = g.i + 1]
    ELSE [g EXCEPT !.i = 0, !.intervalIndex = 0, !.pc = "scan"]
  ELSE IF g.pc = "scan" THEN
    IF g.i < Len(s) THEN
      IF InComment(g)
      THEN [g EXCEPT !.i = g.commentStack[g.intervalIndex + 1].to,
                     !.intervalIndex = @ + 1]
      ELSE LET tok == PlainToken(s, g.i, hebrewIdStart, hebrewIdPart) IN
           [g EXCEPT !.i = tok.to, !.out = Append(@, tok)]
    ELSE [g EXCEPT !.pc = "done"]
  ELSE g

RECURSIVE RunStack(_, _)
RunStack(s, g) == IF g.pc = "done" THEN g.out ELSE RunStack(s, StackStep(s, g))

RECURSIVE RunGreedy(_, _)
RunGreedy(s, g) == IF g.pc = "done" THEN g.out ELSE RunGreedy(s, GreedyStep(s, g))

\* for (const tok of tokenize(text)) tokens.push(tok)   (engine.ts:25-26)
tokenize(s) == RunStack(s, StackInit)
tokenizeGreedy(s) == RunGreedy(s, GreedyInit)

\* ------------------------------------------------------------------------
\* The diagnostic engine (engine.ts): helpers of lintText
\* ------------------------------------------------------------------------
Null == [type |-> "null"]             \* JavaScript null
Undefined == [type |-> "undefined"]   \* JavaScript undefined (arr[k] out of range)

\* arr[k] in JavaScript, k 0-based
At(arr, k) == IF k >= 0 /\ k < Len(arr) THEN arr[k + 1] ELSE Undefined

\* a ?? b
Coalesce(a, b) == IF a = Undefined \/ a = Null THEN b ELSE a

\* engine.ts:13-15
Diag(from, to, message, code) ==
  [from |-> from, to |-> to, message |-> message, severity |-> "error",
   code |-> code]

\* engine.ts:18
isIgnorable(t) == t.type \in {"WS", "Comment"}
\* Mutant of isOperandLike: a closing parenthesis does not end an operand.
isOperandLikeNoParenClose(t) == t.type \in {"Ident", "Number"}

\* engine.ts:21-22
isOperandLike(t) == t.type \in {"Ident", "Number", "ParenClose"}

RECURSIVE prevNonIgnorable(_, _)
\* engine.ts:28-34
prevNonIgnorable(arr, k) ==
  IF k < 0 THEN Null
  ELSE IF ~isIgnorable(arr[k + 1]) THEN arr[k + 1]
  ELSE prevNonIgnorable(arr, k - 1)

RECURSIVE nextNonIgnorable(_, _)
\* engine.ts:35-41
nextNonIgnorable(arr, k) ==
  IF k >= Len(arr) THEN Null
  ELSE IF ~isIgnorable(arr[k + 1]) THEN arr[k + 1]
  ELSE nextNonIgnorable(arr, k + 1)

\* Mutant of UnknownCharDiags: the range ends where it starts.
UnknownCharDiagsEmptyRange(tok) ==
  IF tok.type = "Unknown"
  THEN <<Diag(tok.from, tok.from, "Unknown character", "syntax/unknown-char")>>
  ELSE <<>>

\* engine.ts:47-50
UnknownCharDiags(tok) ==
  IF tok.type = "Unknown"
  THEN <<Diag(tok.from, tok.to, "Unknown character", "syntax/unknown-char")>>
  ELSE <<>>

\* Mutant of ParenStackAfter: a close removes the oldest open (shift for pop).
ParenStackPopOldest(stack, tok) ==
  IF tok.type = "ParenOpen" THEN Append(stack, tok.from)
  ELSE IF tok.type = "ParenClose" /\ Len(stack) > 0
  THEN Tail(stack)
  ELSE stack

\* Mutant of ParenStackAfter: a matched close does not pop its open.
ParenStackNoPop(stack, tok) ==
  IF tok.type = "ParenOpen" THEN Append(stack, tok.from) ELSE stack

\* engine.ts:52-61, the stack after the token
ParenStackAfter(stack, tok) ==
  IF tok.type = "ParenOpen" THEN Append(stack, tok.from)
  ELSE IF tok.type = "ParenClose" /\ Len(stack) > 0
  THEN SubSeq(stack, 1, Len(stack) - 1)
  ELSE stack

\* engine.ts:55-57
ParenCloseDiags(stack, tok) ==
  IF tok.type = "ParenClose" /\ Len(stack) = 0
  THEN <<Diag(tok.from, tok.to, "Unmatched closing parenthesis",
              "syntax/unmatched-close-paren")>>
  ELSE <<>>

\* engine.ts:64-67
PeriodDiags(last, tok) ==
  IF tok.type = "Period" /\ last # Null /\ last.type = "Period"
  THEN <<Diag(tok.from, tok.to, "Redundant period", "syntax/redundant-period")>>
  ELSE <<>>

\* engine.ts:64-73
ContentAfter(hasContent, tok) ==
  IF tok.type = "Period" THEN FALSE
  ELSE IF ~isIgnorable(tok) THEN TRUE
  ELSE hasContent

\* Mutant of OperatorDiags: "-" is checked like the binary operators.
OperatorDiagsAllBinary(arr, k) ==
  LET tok == arr[k + 1] IN
  IF tok.type # "Op" THEN <<>>
  ELSE IF ~isOperandLike(prevNonIgnorable(arr, k - 1))
            \/ ~isOperandLike(nextNonIgnorable(arr, k + 1))
  THEN <<Diag(tok.from, tok.to, "Operator not followed by an operand",
              "syntax/op-missing-operand")>>
  ELSE <<>>

\* engine.ts:76-102
OperatorDiags(arr, k) ==
  LET tok == arr[k + 1] IN
  IF tok.type # "Op" THEN <<>>
  ELSE
    LET prevIsOperand == isOperandLike(prevNonIgnorable(arr, k - 1))
        nextIsOperand == isOperandLike(nextNonIgnorable(arr, k + 1))
    IN
    IF tok.value = <<"-">> THEN
      IF ~prevIsOperand THEN
        IF ~nextIsOperand
        THEN <<Diag(tok.from, tok.to, "Unary minus must be followed by an operand",
                    "syntax/op-missing-operand")>>
        ELSE <<>>
      ELSE
        IF ~nextIsOperand
        THEN <<Diag(tok.from, tok.to, "Operator not followed by an operand",
                    "syntax/op-missing-operand")>>
        ELSE <<>>
    ELSE
      IF ~prevIsOperand \/ ~nextIsOperand
      THEN <<Diag(tok.from, tok.to, "Operator not followed by an operand",
                  "syntax/op-missing-operand")>>
      ELSE <<>>

\* engine.ts:105
LastNonWsAfter(last, tok) == IF tok.type # "WS" THEN tok ELSE last

RECURSIVE UnmatchedOpenFifo(_)
\* Mutant of UnmatchedOpenDiags: the stack is read from its bottom (shift).
UnmatchedOpenFifo(stack) ==
  IF Len(stack) = 0 THEN <<>>
  ELSE LET pos == stack[1] IN
       <<Diag(pos, pos + 1, "Unmatched opening parenthesis",
              "syntax/unmatched-open-paren")>>
       \o UnmatchedOpenFifo(Tail(stack))

RECURSIVE UnmatchedOpenDiags(_)
\* engine.ts:110-113, the stack popped from its top
UnmatchedOpenDiags(stack) ==
  IF Len(stack) = 0 THEN <<>>
  ELSE LET pos == stack[Len(stack)] IN
       <<Diag(pos, pos + 1, "Unmatched opening parenthesis",
              "syntax/unmatched-open-paren")>>
       \o UnmatchedOpenDiags(SubSeq(stack, 1, Len(stack) - 1))

\* engine.ts:116-119
MissingPeriodDiags(hasContent, last) ==
  IF hasContent /\ last # Null /\ last.type # "Period"
  THEN <<Diag(Max(0, last.to - 1), last.to, "Missing period at end of statement",
              "syntax/missing-period")>>
  ELSE <<>>

RECURSIVE SegmentFrom(_, _, _, _)
\* engine.ts:124-132   for (let i = 0; i <= tokens.length; i++)
SegmentFrom(toks, i, start, acc) ==
  IF i > Len(toks) THEN acc
  ELSE IF At(toks, i) = Undefined \/ At(toks, i).type = "Period"
  THEN SegmentFrom(toks, i + 1, i + 1,
                   Append(acc, [startIdx |-> start, endIdx |-> i - 1]))
  ELSE SegmentFrom(toks, i + 1, start, acc)

Segments(toks) == SegmentFrom(toks, 0, 0, <<>>)

RECURSIVE firstNonIgn(_, _, _)
\* engine.ts:135-138
firstNonIgn(toks, a, b) ==
  IF a > b THEN -1
  ELSE IF At(toks, a) # Undefined /\ ~isIgnorable(At(toks, a)) THEN a
  ELSE firstNonIgn(toks, a + 1, b)

RECURSIVE lastNonIgn(_, _, _)
\* engine.ts:139-142
lastNonIgn(toks, a, b) ==
  IF b < a THEN -1
  ELSE IF At(toks, b) # Undefined /\ ~isIgnorable(At(toks, b)) THEN b
  ELSE lastNonIgn(toks, a, b - 1)

Significant(t) == ~isIgnorable(t)
\* engine.ts:152-153
StmtTokens(toks, s, e) == SelectSeq(SubSeq(toks, s + 1, e + 1), Significant)

IsKeyword(t, word) == t.type = "Keyword" /\ t.value = word

\* engine.ts:156-158, 0-based positions of the "let" keyword in the statement
IndicesOfLet(stmt) ==
  LET hit(k) == IsKeyword(stmt[k], kwLet)
      Pos == {k \in 1..Len(stmt) : hit(k)}
      Rank(k) == Cardinality({j \in Pos : j < k})
  IN [n \in 1..Cardinality(Pos) |-> (CHOOSE k \in Pos : Rank(k) = n - 1) - 1]

\* The outcome of one iteration of the statement loop: the diagnostics it
\* pushed, or threw = TRUE when it read a property of undefined.
Emitted(ds) == [threw |-> FALSE, diags |-> ds]
Thrown == [threw |-> TRUE, diags |-> <<>>]

\* push(a.from, b.to, ...) where a and b are values read from an array
PushSpan(a, b, message, code) ==
  IF a = Undefined \/ b = Undefined THEN Thrown
  ELSE Emitted(<<Diag(a.from, b.to, message, code)>>)

\* Mutant of errTok: no fallback when the statement ran out of tokens.
errTokNoFallback(t, fallback) == t

\* engine.ts:185, 194, 203   const errTok = t ?? fallback
errTok(t, fallback) == Coalesce(t, fallback)

\* Mutant of MergedStatement: the range starts one unit after the boundary.
MergedStatementAfterGap(stmt) ==
  LET secondIdx == IndicesOfLet(stmt)[2]
      prevTok == Coalesce(At(stmt, secondIdx - 1), At(stmt, 0))
  IN
  IF prevTok = Undefined THEN Thrown
  ELSE LET from == prevTok.to + 1
           to == Min(from + 1, prevTok.to)
       IN Emitted(<<Diag(from, to, "Missing period between statements",
                         "syntax/missing-period-between-statements")>>)

\* engine.ts:159-167
MergedStatement(stmt) ==
  LET secondIdx == IndicesOfLet(stmt)[2]
      prevTok == Coalesce(At(stmt, secondIdx - 1), At(stmt, 0))
  IN
  IF prevTok = Undefined THEN Thrown
  ELSE LET from == prevTok.to
           to == Min(from + 1, prevTok.to)
       IN Emitted(<<Diag(from, to, "Missing period between statements",
                         "syntax/missing-period-between-statements")>>)

\* Mutant of AssignStatement: the extra-token range starts at the number, the
\* last token of the shape.
AssignStatementExtraFromNumber(stmt) ==
  LET t0 == At(stmt, 0)
      t1 == At(stmt, 1)
      t2 == At(stmt, 2)
      t3 == At(stmt, 3)
  IN
  IF ~(t0 # Undefined /\ IsKeyword(t0, kwLet))
  THEN PushSpan(At(stmt, 0), At(stmt, Len(stmt) - 1), "Invalid statement",
                "syntax/invalid-statement")
  ELSE IF ~(t1 # Undefined /\ t1.type = "Ident")
  THEN PushSpan(errTok(t1, t0), errTok(t1, t0), "Expected identifier after let",
                "syntax/var-assign-expected-ident")
  ELSE IF ~(t2 # Undefined /\ IsKeyword(t2, kwEquals))
  THEN PushSpan(errTok(t2, At(stmt, 1)), errTok(t2, At(stmt, 1)),
                "Expected keyword equals after identifier",
                "syntax/var-assign-expected-shaveh")
  ELSE IF ~(t3 # Undefined /\ t3.type = "Number")
  THEN PushSpan(errTok(t3, At(stmt, 2)), errTok(t3, At(stmt, 2)),
                "Expected number after equals",
                "syntax/var-assign-expected-number")
  ELSE IF 4 < Len(stmt)
  THEN PushSpan(At(stmt, 3), At(stmt, Len(stmt) - 1),
                "Unexpected extra tokens after assignment",
                "syntax/statement-extra-tokens")
  ELSE Emitted(<<>>)

\* Mutant of AssignStatement: the walk goes on after a missing identifier and
\* reports the next position too.
AssignStatementCascading(stmt) ==
  LET t0 == At(stmt, 0)
      t1 == At(stmt, 1)
      t2 == At(stmt, 2)
      e1 == errTok(t1, t0)
      e2 == errTok(t2, t0)
  IN
  IF ~(t0 # Undefined /\ IsKeyword(t0, kwLet))
  THEN PushSpan(At(stmt, 0), At(stmt, Len(stmt) - 1), "Invalid statement",
                "syntax/invalid-statement")
  ELSE Emitted(
         (IF ~(t1 # Undefined /\ t1.type = "Ident")
          THEN <<Diag(e1.from, e1.to, "Expected identifier after let",
                      "syntax/var-assign-expected-ident")>>
          ELSE <<>>)
         \o (IF ~(t2 # Undefined /\ IsKeyword(t2, kwEquals))
             THEN <<Diag(e2.from, e2.to, "Expected keyword equals after identifier",
                         "syntax/var-assign-expected-shaveh")>>
             ELSE <<>>))

\* engine.ts:170-215
AssignStatement(stmt) ==
  LET t0 == At(stmt, 0)
      t1 == At(stmt, 1)
      t2 == At(stmt, 2)
      t3 == At(stmt, 3)
  IN
  IF ~(t0 # Undefined /\ IsKeyword(t0, kwLet))
  THEN PushSpan(At(stmt, 0), At(stmt, Len(stmt) - 1), "Invalid statement",
                "syntax/invalid-statement")
  ELSE IF ~(t1 # Undefined /\ t1.type = "Ident")
  THEN PushSpan(errTok(t1, t0), errTok(t1, t0), "Expected identifier after let",
                "syntax/var-assign-expected-ident")
  ELSE IF ~(t2 # Undefined /\ IsKeyword(t2, kwEquals))
  THEN PushSpan(errTok(t2, At(stmt, 1)), errTok(t2, At(stmt, 1)),
                "Expected keyword equals after identifier",
                "syntax/var-assign-expected-shaveh")
  ELSE IF ~(t3 # Undefined /\ t3.type = "Number")
  THEN PushSpan(errTok(t3, At(stmt, 2)), errTok(t3, At(stmt, 2)),
                "Expected number after equals",
                "syntax/var-assign-expected-number")
  ELSE IF 4 < Len(stmt)
  THEN PushSpan(At(stmt, 4), At(stmt, Len(stmt) - 1),
                "Unexpected extra tokens after assignment",
                "syntax/statement-extra-tokens")
  ELSE Emitted(<<>>)

\* engine.ts:144-216, one iteration of  for (const seg of statements)
CheckStatement(toks, seg) ==
  IF seg.startIdx > seg.endIdx THEN Emitted(<<>>)
  ELSE
    LET s == firstNonIgn(toks, seg.startIdx, seg.endIdx)
        e == lastNonIgn(toks, seg.startIdx, seg.endIdx)
    IN
    IF s = -1 \/ e = -1 THEN Emitted(<<>>)
    ELSE LET stmt == StmtTokens(toks, s, e) IN
         IF Len(IndicesOfLet(stmt)) > 1 THEN MergedStatement(stmt)
         ELSE AssignStatement(stmt)

\* ------------------------------------------------------------------------
\* lintText as a machine: the activation record of one call and its steps
\* ------------------------------------------------------------------------
\* Mutant of NewList: the list outlives the call (declared outside lintText).
KeptList(old) == old

\* engine.ts:5  const diagnostics: Diagnostic[] = []   (a new list per call)
NewList(old) == <<>>

IdleFrame ==
  [pc |-> "idle", text |-> <<>>, tokens |-> <<>>, parenStack |-> <<>>,
   lastNonWsTok |-> Null, stmtHasContent |-> FALSE, idx |-> 0,
   statements |-> <<>>, seg |-> 0]

\* engine.ts:2  import { tokenize } from "../lang/tokenizer"
\* The repository holds two modules of that name: tokenizer.ts ("stack") and
\* part_001 ("greedy"); link says which one the engine is built with.
tokenizeLinked(link, s) ==
  IF link = "greedy" THEN tokenizeGreedy(s) ELSE tokenize(s)

\* engine.ts:5-26, the locals at the start of pass 1 (lastTok is never read)
EnterFrame(link, t) ==
  [IdleFrame EXCEPT !.pc = "pass1", !.text = t,
                    !.tokens = tokenizeLinked(link, t)]

Step(f, ds) == [frame |-> f, pushed |-> ds]

\* engine.ts:44-107, one iteration of the token loop
Pass1Iter(f) ==
  LET tok == f.tokens[f.idx + 1] IN
  Step([f EXCEPT !.parenStack = ParenStackAfter(@, tok),
                 !.stmtHasContent = ContentAfter(@, tok),
                 !.lastNonWsTok = LastNonWsAfter(@, tok),
                 !.idx = @ + 1],
       UnknownCharDiags(tok)
         \o ParenCloseDiags(f.parenStack, tok)
         \o PeriodDiags(f.lastNonWsTok, tok)
         \o OperatorDiags(f.tokens, f.idx))

\* engine.ts:109-132, the end-of-file checks and the statement segmentation
Pass1Eof(f) ==
  Step([f EXCEPT !.parenStack = <<>>,
                 !.statements = Segments(f.tokens),
                 !.seg = 0,
                 !.pc = "pass2"],
       UnmatchedOpenDiags(f.parenStack)
         \o MissingPeriodDiags(f.stmtHasContent, f.lastNonWsTok))

\* Mutant of Pass2Iter: a statement with a diagnostic ends the loop (break
\* for continue).
Pass2IterBreak(f) ==
  LET r == CheckStatement(f.tokens, f.statements[f.seg + 1]) IN
  IF r.threw THEN Step([f EXCEPT !.pc = "threw"], <<>>)
  ELSE IF r.diags # <<>> THEN Step([f EXCEPT !.seg = Len(f.statements)], r.diags)
  ELSE Step([f EXCEPT !.seg = @ + 1], r.diags)

\* engine.ts:144-216, one iteration of the statement loop
Pass2Iter(f) ==
  LET r == CheckStatement(f.tokens, f.statements[f.seg + 1]) IN
  IF r.threw THEN Step([f EXCEPT !.pc = "threw"], <<>>)
  ELSE Step([f EXCEPT !.seg = @ + 1], r.diags)

\* engine.ts:218
Return(f) == Step([f EXCEPT !.pc = "done"], <<>>)

LintStep(f) ==
  IF f.pc = "pass1" THEN
    IF f.idx < Len(f.tokens) THEN Pass1Iter(f) ELSE Pass1Eof(f)
  ELSE IF f.pc = "pass2" THEN
    IF f.seg < Len(f.statements) THEN Pass2Iter(f) ELSE Return(f)
  ELSE Step(f, <<>>)

RECURSIVE RunLint(_, _)
RunLint(f, ds) ==
  IF f.pc \in {"done", "threw"} THEN [pc |-> f.pc, diagnostics |-> ds]
  ELSE LET n == LintStep(f) IN RunLint(n.frame, ds \o n.pushed)

\* engine.ts:4-219, a call run on its own from start to end
lintText(link, t) == RunLint(EnterFrame(link, t), NewList(<<>>))

\* ------------------------------------------------------------------------
\* SourceText (sourceText.ts): range handling and line/column mapping
\* ------------------------------------------------------------------------
\* _lineStarts before the first use of the getter (null); the computed array
\* always holds offset 0, so the empty array stands for it
NoLineStarts == <<>>

\* sourceText.ts:6-11, the object after construction
NewSourceText(text) == [text |-> text, lineStarts |-> NoLineStarts]

\* sourceText.ts:13-15
length(st) == Len(st.text)

\* sourceText.ts:17-21
clamp(st, pos) ==
  IF pos < 0 THEN 0
  ELSE IF pos > Len(st.text) THEN Len(st.text)
  ELSE pos

\* sourceText.ts:23-25
slice(st, from, to) == Slice(st.text, clamp(st, from), clamp(st, to))

\* Mutant of ensureNonEmptyRange: the empty range is returned as it is.
ensureNonEmptyRangeNoWiden(st, from, to) ==
  [from |-> clamp(st, Min(from, to)), to |-> clamp(st, Max(from, to))]

\* sourceText.ts:27-32
ensureNonEmptyRange(st, from, to) ==
  LET f == clamp(st, Min(from, to))
      t == clamp(st, Max(from, to))
  IN [from |-> f, to |-> IF t = f /\ t < Len(st.text) THEN f + 1 ELSE t]

\* sourceText.ts:36-40, the loop from index i on
RECURSIVE LineStartsFrom(_, _, _)
LineStartsFrom(text, i, starts) ==
  IF i < Len(text) THEN
    LineStartsFrom(text, i + 1,
                   IF CharAt(text, i) = "\n" THEN Append(starts, i + 1)
                   ELSE starts)
  ELSE starts

\* Mutant of computeLineStarts: a line starts at its newline, not after it.
computeLineStartsAtNewline(text) ==
  LET starts == LineStartsFrom(text, 0, <<0>>) IN
  [k \in 1..Len(starts) |-> IF k = 1 THEN 0 ELSE starts[k] - 1]

\* sourceText.ts:34-42
computeLineStarts(text) == LineStartsFrom(text, 0, <<0>>)

\* sourceText.ts:44-47, the getter: the array it returns ...
lineStarts(st) ==
  IF st.lineStarts = NoLineStarts THEN computeLineStarts(st.text)
  ELSE st.lineStarts

\* ... and the object it leaves, with the array memoized
Memoized(st) == [st EXCEPT !.lineStarts = lineStarts(st)]

\* sourceText.ts:49-51
lineCount(st) == Len(lineStarts(st))

\* sourceText.ts:58-68, the binary search from the bounds low and high on
RECURSIVE BinarySearch(_, _, _, _)
BinarySearch(starts, pos, low, high) ==
  IF low <= high THEN
    LET mid == (low + high) \div 2
        start == starts[mid + 1]
    IN IF start = pos THEN [line |-> mid, column |-> 0]
       ELSE IF start < pos THEN BinarySearch(starts, pos, mid + 1, high)
       ELSE BinarySearch(starts, pos, low, mid - 1)
  ELSE
    LET line == Max(0, low - 1) IN
    [line |-> line, column |-> pos - starts[line + 1]]

\* sourceText.ts:54-69
positionAt(st, offset) ==
  LET pos == clamp(st, offset)
      starts == lineStarts(st)
  IN BinarySearch(starts, pos, 0, Len(starts) - 1)

\* sourceText.ts:72-76
offsetAt(st, line, column) ==
  LET starts == lineStarts(st)
      ln == Max(0, Min(line, Len(starts) - 1))
  IN clamp(st, starts[ln + 1] + Max(0, column))

\* ------------------------------------------------------------------------
\* The lint plugin (editor.js): diagnostics made ready for the decorations
\* ------------------------------------------------------------------------
\* Mutant of NormalizedDiag: an inverted range is not swapped.
NormalizedDiagNoSwap(docsLength, d) ==
  LET from == Max(0, Min(docsLength, d.from))
      to == Max(0, Min(docsLength, d.to))
  IN [d EXCEPT !.from = from,
               !.to = IF to = from /\ to < docsLength THEN from + 1 ELSE to]

\* editor.js:294-300, the function mapped over the diagnostics
NormalizedDiag(docsLength, d) ==
  LET from == Max(0, Min(docsLength, d.from))
      to == Max(0, Min(docsLength, d.to))
      lo == IF to < from THEN to ELSE from
      hi == IF to < from THEN from ELSE to
  IN [d EXCEPT !.from = lo,
               !.to = IF hi = lo /\ hi < docsLength THEN lo + 1 ELSE hi]

\* editor.js:301   (a, b) => (a.from - b.from) || (a.to - b.to)
CompareDiags(a, b) == IF a.from - b.from # 0 THEN a.from - b.from ELSE a.to - b.to

RECURSIVE InsertDiag(_, _)
\* d put behind every element that does not compare greater (a stable sort)
InsertDiag(sorted, d) ==
  IF sorted = <<>> THEN <<d>>
  ELSE IF CompareDiags(Head(sorted), d) <= 0
  THEN <<Head(sorted)>> \o InsertDiag(Tail(sorted), d)
  ELSE <<d>> \o sorted

RECURSIVE SortDiags(_)
\* editor.js:301   normalized.sort(...)
SortDiags(ds) ==
  IF ds = <<>> THEN <<>>
  ELSE InsertDiag(SortDiags(SubSeq(ds, 1, Len(ds) - 1)), ds[Len(ds)])

\* editor.js:293-303
normalizeAndSortDiagnostics(docsLength, diags) ==
  SortDiags([k \in 1..Len(diags) |-> NormalizedDiag(docsLength, diags[k])])

\* ------------------------------------------------------------------------
\* The textarea editor (part_000): the undo/redo history
\* ------------------------------------------------------------------------
\* history.limit (part_000:16). The source has 100; the model takes a small
\* limit, which the code treats like any other.
limit == 3

\* part_000:14-15, the history object before anything is recorded
NewHistory == [stack |-> <<>>, redoStack |-> <<>>, debounceTimer |-> FALSE]

\* part_000:62-68, the saved state (the cursor, kept with the content, is
\* left out)
getCurrentState(value) == [content |-> value]

\* part_000:20-26
reset(h) ==
  [h EXCEPT !.stack = IF Len(@) > 0 THEN SubSeq(@, 1, 1) ELSE @,
            !.redoStack = <<>>]

\* part_000:29-40
pushState(h, state) ==
  LET pushed == Append(h.stack, state) IN
  [h EXCEPT !.redoStack = <<>>,
            !.stack = IF Len(pushed) > limit THEN Tail(pushed) ELSE pushed]

\* part_000:43-50, the history after undo() and the value undo() returns
undo(h) ==
  IF Len(h.stack) > 1
  THEN [history |-> [h EXCEPT !.stack = SubSeq(@, 1, Len(@) - 1),
                              !.redoStack = Append(@, h.stack[Len(h.stack)])],
        result |-> h.stack[Len(h.stack) - 1]]
  ELSE [history |-> h, result |-> Null]

\* part_000:53-60
redo(h) ==
  IF Len(h.redoStack) > 0
  THEN [history |-> [h EXCEPT !.redoStack = SubSeq(@, 1, Len(@) - 1),
                              !.stack = Append(@, h.redoStack[Len(h.redoStack)])],
        result |-> h.redoStack[Len(h.redoStack)]]
  ELSE [history |-> h, result |-> Null]

\* part_000:81-83
record(h, value) == pushState(h, getCurrentState(value))

\* ------------------------------------------------------------------------
\* Input texts
\* ------------------------------------------------------------------------
CharAlphabet == {"/", "*", " ", "5", "x", "bet"}

RECURSIVE SeqsUpTo(_, _)
SeqsUpTo(S, n) ==
  IF n = 0 THEN {<<>>}
  ELSE LET shorter == SeqsUpTo(S, n - 1) IN
       shorter \cup {Append(t, c) : t \in {u \in shorter : Len(u) = n - 1}, c \in S}

CharTexts == SeqsUpTo(CharAlphabet, MaxLen)

\* "let x equals 5."  and the other texts of the specification's scenarios
ScenarioA == kwLet \o <<" ", "x", " ">> \o kwEquals \o <<" ", "5", ".">>
ScenarioB == kwLet \o <<" ", "x", " ">> \o kwEquals \o <<" ", ".">>
ScenarioC == <<"(", "5", " ", "+", " ", "3">>
ScenarioD == ScenarioA \o <<" ">> \o kwLet \o <<" ", "y", " ">> \o kwEquals \o <<" ", "3", ".">>
ScenarioE == <<"5", " ", "+", " ", ".">>
ScenarioF == <<"/", "*", " ", "x", " ", "y">>
ScenarioTexts == {ScenarioA, ScenarioB, ScenarioC, ScenarioD, ScenarioE, ScenarioF}

\* texts with comments next to periods, content and other comment openers
NestedComment == <<"/", "*", "/", "*", "*", "/", "5", "*", "/">>
PeriodCommentPeriod == <<"5", ".", "/", "*", "*", "/", ".">>
ContentThenComment == <<"5", " ", "/", "*", " ", "*", "/", " ">>
CommentTexts == {NestedComment, PeriodCommentPeriod, ContentThenComment}

TokTexts == CharTexts \cup ScenarioTexts \cup CommentTexts

RECURSIVE Flatten(_)
Flatten(ws) == IF ws = <<>> THEN <<>> ELSE Head(ws) \o Flatten(Tail(ws))

RECURSIVE JoinWords(_)
\* the words separated by one space, absent (empty) words left out
JoinWords(ws) ==
  IF ws = <<>> THEN <<>>
  ELSE IF Head(ws) = <<>> THEN JoinWords(Tail(ws))
  ELSE LET rest == JoinWords(Tail(ws)) IN
       IF rest = <<>> THEN Head(ws) ELSE Head(ws) \o <<" ">> \o rest

Lexicon ==
  {kwLet, <<"bet">>, <<"5">>, <<" ">>, <<".">>, <<"(">>, <<")">>, <<"+">>,
   <<"-">>, <<"#">>, <<"/", "*">>, <<"*", "/">>}

WordTexts == {Flatten(ws) : ws \in SeqsUpTo(Lexicon, MaxWords)}

\* one statement, each position of the assignment form filled, varied or absent
SlotTexts ==
  {JoinWords(<<a, b, c, d, e>>) \o p :
     a \in {kwLet, kwIf, <<"bet">>, <<>>},
     b \in {<<"bet">>, <<"x">>, <<"5">>, <<>>},
     c \in {kwEquals, kwLet, <<>>},
     d \in {<<"5">>, <<"bet">>, <<>>},
     e \in {<<"3">>, kwLet, <<>>},
     p \in {<<".">>, <<>>}}

\* well-formed assignment statements  let <Ident> equals <Number> .
Idents == {<<"bet">>, <<"x">>, <<"bet", "5">>}
Numbers == {<<"5">>, <<"5", "3">>}
Assignment(id, num) == JoinWords(<<kwLet, id, kwEquals, num>>) \o <<".">>
Assignments == {Assignment(id, num) : id \in Idents, num \in Numbers}
HebrewAssignments == {Assignment(<<"bet">>, num) : num \in Numbers}

MaxStmts == 2    \* most statements in a text of well-formed assignments

RECURSIVE StatementTexts(_, _)
\* up to n statements of S, separated by one white-space code unit
StatementTexts(S, n) ==
  IF n = 0 THEN {<<>>}
  ELSE LET shorter == StatementTexts(S, n - 1) IN
       shorter \cup S
         \cup {t \o <<w>> \o a : t \in shorter \ {<<>>}, w \in WhiteSpace, a \in S}

WellFormedTexts == StatementTexts(Assignments, MaxStmts)

\* a well-formed statement next to malformed ones
MixedStatements ==
  {Assignment(<<"bet">>, <<"5">>),
   JoinWords(<<kwLet, <<"bet">>, kwEquals>>) \o <<".">>,
   JoinWords(<<kwLet, <<"bet">>>>) \o <<".">>,
   JoinWords(<<kwLet>>) \o <<".">>,
   JoinWords(<<<<"bet">>, <<"+">>, <<"5">>>>) \o <<".">>,
   JoinWords(<<kwIf, <<"bet">>>>) \o <<".">>,
   <<"/", "*", " ", "*", "/", ".">>}
MixedTexts == StatementTexts(MixedStatements, MaxStmts)

MaxParenLen == 5    \* longest text of the parenthesis input set
ParenTexts == SeqsUpTo({"(", ")", "5"}, MaxParenLen)

\* a statement that repeats a leading keyword other than "let"
RepeatedIf == JoinWords(<<kwIf, <<"bet">>, kwIf, <<"bet">>>>) \o <<".">>

LintTexts ==
  WordTexts \cup SlotTexts \cup WellFormedTexts \cup MixedTexts
    \cup ParenTexts \cup ScenarioTexts \cup CommentTexts \cup {RepeatedIf}

MaxSrcLen == 3    \* longest text a SourceText is constructed on
MaxOver == 1      \* how far outside the text an offset, line or column lies
SrcTexts == SeqsUpTo({"5", "\n"}, MaxSrcLen)
SrcArgs(st) == (0 - MaxOver)..(Len(st.text) + MaxOver)

MaxDocLen == 1    \* longest document whose diagnostics are normalized
MaxDiags == 2     \* most diagnostics in a list that is normalized
\* the k-th diagnostic of a list carries k as its message
DiagLists(L) ==
  LET R == (0 - MaxOver)..(L + MaxOver)
      Pairs == R \X R
  IN UNION {[1..n -> Pairs] : n \in 0..MaxDiags}
AsDiags(ps) ==
  [k \in 1..Len(ps) |-> [from |-> ps[k][1], to |-> ps[k][2], message |-> k]]

\* the contents the textarea takes: the one the document is opened with and
\* the ones the user's edits produce
OpenedContent == "opened"
Contents == {OpenedContent, "edit a", "edit b"}

\* the documents of the two-call-site specification
ConcTexts ==
  {ScenarioA, ScenarioB, ScenarioC, ScenarioE,
   Assignment(<<"bet">>, <<"5">>),
   <<"(", ")", ")", "(">>,
   <<".", ".", "#">>,
   <<"/", "*", " ", "*", "/", "5", "+">>}

\* ------------------------------------------------------------------------
\* State
\* ------------------------------------------------------------------------
VARIABLES
  impl,         \* the tokenizer in use: "greedy" (part_001) or "stack" (tokenizer.ts)
  src,          \* the text the generator was called on
  gen,          \* the generator's frame: its locals and the tokens yielded so far
  steps,        \* loop iterations the generator has run
  frame,        \* per call site: the locals of its lintText call
  diagnostics,  \* per call site: the diagnostic list of its lintText call
  calls,        \* per call site: lintText calls issued so far
  returned,     \* per call site: what its previous call returned, or Null
  sourceText,   \* the SourceText object: its text and its memoized line starts
  lastOp,       \* the last utility call: its name, arguments and result
  textArea,     \* textArea.value of the textarea editor
  history,      \* its history object: stack, redoStack, debounce timer armed
  isModified,   \* its unsaved-changes flag
  page          \* "loading", "ready", or "saving" inside cancelChanges

tokVars == <<impl, src, gen, steps>>
lintVars == <<frame, diagnostics, calls, returned>>
srcVars == <<sourceText, lastOp>>
editVars == <<textArea, history, isModified, page>>
vars ==
  <<impl, src, gen, steps, frame, diagnostics, calls, returned,
    sourceText, lastOp, textArea, history, isModified, page>>

\* editor.js:319-322 (mamashLintPlugin.buildNow), 343-346 (mamashLintTooltip)
Sites == {"deco", "hover"}

TokIdle ==
  /\ impl = "stack"
  /\ src = <<>>
  /\ gen = StackInit
  /\ steps = 0

LintIdle ==
  /\ frame = [c \in Sites |-> IdleFrame]
  /\ diagnostics = [c \in Sites |-> <<>>]
  /\ calls = [c \in Sites |-> 0]
  /\ returned = [c \in Sites |-> Null]

\* part_000:1-92, the page before DOMContentLoaded
EditIdle ==
  /\ textArea = OpenedContent
  /\ history = NewHistory
  /\ isModified = FALSE
  /\ page = "loading"

SrcIdle ==
  /\ sourceText = NewSourceText(<<>>)
  /\ lastOp = [op |-> "none"]

\* ------------------------------------------------------------------------
\* Specification of the tokenizers
\* ------------------------------------------------------------------------
TokInit ==
  /\ impl \in {"greedy", "stack"}
  /\ src \in TokTexts
  /\ gen = IF impl = "greedy" THEN GreedyInit ELSE StackInit
  /\ steps = 0
  /\ LintIdle
  /\ EditIdle
  /\ SrcIdle

GreedyNext ==
  /\ impl = "greedy"
  /\ gen.pc # "done"
  /\ gen' = GreedyStep(src, gen)
  /\ steps' = steps + 1
  /\ UNCHANGED <<impl, src>>
  /\ UNCHANGED <<lintVars, srcVars, editVars>>

StackNext ==
  /\ impl = "stack"
  /\ gen.pc # "done"
  /\ gen' = StackStep(src, gen)
  /\ steps' = steps + 1
  /\ UNCHANGED <<impl, src>>
  /\ UNCHANGED <<lintVars, srcVars, editVars>>

TokNext == GreedyNext \/ StackNext

SpecTok == TokInit /\ [][TokNext]_vars

\* ------------------------------------------------------------------------
\* Specification of the diagnostic engine
\* ------------------------------------------------------------------------
\* Mutant of diagnosticsOf: one list shared by every call.
diagnosticsShared(c) == "deco"

\* The list a call's push writes to: the call's own (engine.ts:5, 13-15:
\* diagnostics is declared inside lintText and push closes over it).
diagnosticsOf(c) == c

Init == TokIdle /\ LintIdle /\ SrcIdle /\ EditIdle

\* the frame and the pushed diagnostics of one step of site c
Advance(c, n) ==
  /\ frame' = [frame EXCEPT ![c] = n.frame]
  /\ diagnostics' =
       [diagnostics EXCEPT ![diagnosticsOf(c)] = @ \o n.pushed]

Enter(c, t) ==
  /\ frame' = [frame EXCEPT ![c] = EnterFrame(impl, t)]
  /\ diagnostics' = [diagnostics EXCEPT ![diagnosticsOf(c)] = NewList(@)]
  /\ calls' = [calls EXCEPT ![c] = @ + 1]

\* a call site calls lintText(doc) on the document it reads
LintCall(c, T) ==
  /\ frame[c].pc = "idle"
  /\ \E t \in T : Enter(c, t)
  /\ UNCHANGED <<returned, tokVars, srcVars, editVars>>

\* the call site calls lintText again on the unchanged document
LintAgain(c) ==
  /\ frame[c].pc = "done"
  /\ calls[c] < MaxCalls
  /\ Enter(c, frame[c].text)
  /\ returned' = [returned EXCEPT ![c] = diagnostics[c]]
  /\ UNCHANGED <<tokVars, srcVars, editVars>>

Pass1Token(c) ==
  /\ frame[c].pc = "pass1"
  /\ frame[c].idx < Len(frame[c].tokens)
  /\ Advance(c, Pass1Iter(frame[c]))
  /\ UNCHANGED <<calls, returned, tokVars, srcVars, editVars>>

Pass1End(c) ==
  /\ frame[c].pc = "pass1"
  /\ frame[c].idx >= Len(frame[c].tokens)
  /\ Advance(c, Pass1Eof(frame[c]))
  /\ UNCHANGED <<calls, returned, tokVars, srcVars, editVars>>

Pass2Statement(c) ==
  /\ frame[c].pc = "pass2"
  /\ frame[c].seg < Len(frame[c].statements)
  /\ Advance(c, Pass2Iter(frame[c]))
  /\ UNCHANGED <<calls, returned, tokVars, srcVars, editVars>>

LintReturn(c) ==
  /\ frame[c].pc = "pass2"
  /\ frame[c].seg >= Len(frame[c].statements)
  /\ Advance(c, Return(frame[c]))
  /\ UNCHANGED <<calls, returned, tokVars, srcVars, editVars>>

SiteNext(c, T) ==
  \/ LintCall(c, T)
  \/ LintAgain(c)
  \/ Pass1Token(c)
  \/ Pass1End(c)
  \/ Pass2Statement(c)
  \/ LintReturn(c)

\* one call site, every input text
Next == SiteNext("deco", LintTexts)
Spec == Init /\ [][Next]_vars

\* both call sites, their steps interleaved
ConcNext == \E c \in Sites : SiteNext(c, ConcTexts)
SpecConc == Init /\ [][ConcNext]_vars

\* the engine built with the tokenizer of part_001
InitGreedy ==
  /\ impl = "greedy"
  /\ src = <<>>
  /\ gen = GreedyInit
  /\ steps = 0
  /\ LintIdle
  /\ EditIdle
  /\ SrcIdle

SpecGreedy == InitGreedy /\ [][Next]_vars

\* ------------------------------------------------------------------------
\* Specification of SourceText
\* ------------------------------------------------------------------------
\* new SourceText(text)
SrcInit ==
  /\ TokIdle
  /\ LintIdle
  /\ EditIdle
  /\ \E text \in SrcTexts : sourceText = NewSourceText(text)
  /\ lastOp = [op |-> "new"]

Called(op, args, result) == [op |-> op, args |-> args, result |-> result]

Length ==
  /\ lastOp' = Called("length", <<>>, length(sourceText))
  /\ UNCHANGED <<sourceText, tokVars, lintVars, editVars>>

Clamp ==
  /\ \E pos \in SrcArgs(sourceText) :
       lastOp' = Called("clamp", <<pos>>, clamp(sourceText, pos))
  /\ UNCHANGED <<sourceText, tokVars, lintVars, editVars>>

SliceText ==
  /\ \E from \in SrcArgs(sourceText), to \in SrcArgs(sourceText) :
       lastOp' = Called("slice", <<from, to>>, slice(sourceText, from, to))
  /\ UNCHANGED <<sourceText, tokVars, lintVars, editVars>>

EnsureNonEmptyRange ==
  /\ \E from \in SrcArgs(sourceText), to \in SrcArgs(sourceText) :
       lastOp' = Called("ensureNonEmptyRange", <<from, to>>,
                        ensureNonEmptyRange(sourceText, from, to))
  /\ UNCHANGED <<sourceText, tokVars, lintVars, editVars>>

LineCount ==
  /\ lastOp' = Called("lineCount", <<>>, lineCount(sourceText))
  /\ sourceText' = Memoized(sourceText)
  /\ UNCHANGED <<tokVars, lintVars, editVars>>

PositionAt ==
  /\ \E offset \in SrcArgs(sourceText) :
       lastOp' = Called("positionAt", <<offset>>, positionAt(sourceText, offset))
  /\ sourceText' = Memoized(sourceText)
  /\ UNCHANGED <<tokVars, lintVars, editVars>>

OffsetAt ==
  /\ \E line \in SrcArgs(sourceText), column \in SrcArgs(sourceText) :
       lastOp' = Called("offsetAt", <<line, column>>,
                        offsetAt(sourceText, line, column))
  /\ sourceText' = Memoized(sourceText)
  /\ UNCHANGED <<tokVars, lintVars, editVars>>

SrcNext ==
  \/ Length
  \/ Clamp
  \/ SliceText
  \/ EnsureNonEmptyRange
  \/ LineCount
  \/ PositionAt
  \/ OffsetAt

SpecSrc == SrcInit /\ [][SrcNext]_vars

\* ------------------------------------------------------------------------
\* Specification of the diagnostics' normalization
\* ------------------------------------------------------------------------
\* editor.js:321-322: buildNow is about to normalize a list for a document
NormInit ==
  /\ TokIdle
  /\ LintIdle
  /\ EditIdle
  /\ sourceText = NewSourceText(<<>>)
  /\ \E L \in 0..MaxDocLen : \E ps \in DiagLists(L) :
       lastOp = [op |-> "pending", args |-> <<L, AsDiags(ps)>>]

Normalize ==
  /\ lastOp.op = "pending"
  /\ lastOp' = Called("normalizeAndSortDiagnostics", lastOp.args,
                      normalizeAndSortDiagnostics(lastOp.args[1], lastOp.args[2]))
  /\ UNCHANGED <<sourceText, tokVars, lintVars, editVars>>

SpecNorm == NormInit /\ [][Normalize]_vars

\* ------------------------------------------------------------------------
\* Specification of the textarea editor
\* ------------------------------------------------------------------------
EditInit == TokIdle /\ LintIdle /\ SrcIdle /\ EditIdle

unchangedOthers == UNCHANGED <<tokVars, lintVars, srcVars>>

\* part_000:96-104, on DOMContentLoaded (551)
InitializeEditor ==
  /\ page = "loading"
  /\ history' = record(history, textArea)
  /\ page' = "ready"
  /\ UNCHANGED <<textArea, isModified>>
  /\ unchangedOthers

\* part_000:452-457, the user types: the input event
Input ==
  /\ page # "loading"
  /\ \E value \in Contents \ {textArea} : textArea' = value
  /\ isModified' = TRUE
  /\ history' = [history EXCEPT !.debounceTimer = TRUE]
  /\ UNCHANGED page
  /\ unchangedOthers

\* part_000:87-92, the debounce timer fires
DebounceFires ==
  /\ history.debounceTimer
  /\ history' = [record(history, textArea) EXCEPT !.debounceTimer = FALSE]
  /\ UNCHANGED <<textArea, isModified, page>>
  /\ unchangedOthers

\* part_000:266-283, 287-, 355-, 466-479: an editing command records the
\* state and then changes the text (or finds nothing to change)
Command ==
  /\ page # "loading"
  /\ history' = record(history, textArea)
  /\ \E value \in Contents :
       /\ textArea' = value
       /\ isModified' = (isModified \/ value # textArea)
  /\ UNCHANGED page
  /\ unchangedOthers

\* part_000:503-506 and 69-76, Ctrl+Z
KeyUndo ==
  /\ page # "loading"
  /\ LET u == undo(history) IN
     /\ u.result # Null
     /\ history' = u.history
     /\ textArea' = u.result.content
     /\ isModified' = TRUE
  /\ UNCHANGED page
  /\ unchangedOthers

\* part_000:509-512 and 69-76, Ctrl+Y
KeyRedo ==
  /\ page # "loading"
  /\ LET r == redo(history) IN
     /\ r.result # Null
     /\ history' = r.history
     /\ textArea' = r.result.content
     /\ isModified' = TRUE
  /\ UNCHANGED page
  /\ unchangedOthers

\* part_000:198-216, cancelChanges up to its await: the user confirms and
\* the textarea takes the content of history.stack[0]
CancelChanges ==
  /\ page = "ready"
  /\ Len(history.stack) > 1
  /\ textArea' = history.stack[1].content
  /\ page' = "saving"
  /\ UNCHANGED <<history, isModified>>
  /\ unchangedOthers

\* part_000:216-222, cancelChanges after saveDocument has settled (it
\* catches its own errors, 190-194): reset and record
CancelSaved ==
  /\ page = "saving"
  /\ \E saved \in BOOLEAN : isModified' = (isModified /\ ~saved)
  /\ history' = record(reset(history), textArea)
  /\ page' = "ready"
  /\ UNCHANGED textArea
  /\ unchangedOthers

EditNext ==
  \/ InitializeEditor
  \/ Input
  \/ DebounceFires
  \/ Command
  \/ KeyUndo
  \/ KeyRedo
  \/ CancelChanges
  \/ CancelSaved

SpecEdit == EditInit /\ [][EditNext]_vars

\* ------------------------------------------------------------------------
\* Properties
\* ------------------------------------------------------------------------
\* the ranges of the tokens, in the order yielded, partition [0, n)
Partition(out, n) ==
  /\ \A k \in 1..Len(out) :
       /\ out[k].from < out[k].to
       /\ out[k].from = (IF k = 1 THEN 0 ELSE out[k - 1].to)
  /\ (IF out = <<>> THEN 0 ELSE out[Len(out)].to) = n

RECURSIVE ConcatSlices(_, _)
ConcatSlices(s, out) ==
  IF out = <<>> THEN <<>>
  ELSE Slice(s, Head(out).from, Head(out).to) \o ConcatSlices(s, Tail(out))

\* C1: when tokenize(T) has finished, the ranges of the tokens it yielded, in
\* the order yielded, partition [0, len(T)): first from = 0, every from < to,
\* each from is the previous to, the last to is len(T).
C1_Partition == gen.pc = "done" => Partition(gen.out, Len(src))

\* C1 holds of the tokenizer with the greedy comment scan (part_001).
C1_PartitionGreedy ==
  (impl = "greedy" /\ gen.pc = "done") => Partition(gen.out, Len(src))

\* C2: when tokenize(T) has finished, the source slices of the tokens,
\* concatenated in the order yielded, are T.
C2_Lossless == gen.pc = "done" => ConcatSlices(src, gen.out) = src

\* C2 holds of the tokenizer with the greedy comment scan (part_001).
C2_LosslessGreedy ==
  (impl = "greedy" /\ gen.pc = "done") => ConcatSlices(src, gen.out) = src

\* an iteration of the main scanning loop
ScanIteration == gen.pc = "scan" /\ gen.i < Len(src)

\* C3: every iteration of the scanning loop yields one token and moves the
\* cursor forward by at least one code unit, and the finished tokenization
\* has at most len(T) tokens.
C3_StepYieldsAndAdvances ==
  [][/\ ScanIteration => (Len(gen'.out) = Len(gen.out) + 1 /\ gen'.i > gen.i)
     /\ gen'.pc = "done" => Len(gen'.out) <= Len(src)]_vars

\* What holds of both tokenizers: every loop iteration moves its cursor
\* forward, a finished tokenization has at most len(T) tokens, and the
\* generator finishes within 2 * len(T) + 4 steps.
C3_AdvancesAndBounded ==
  /\ [][(gen'.pc = gen.pc) => gen'.i > gen.i]_vars
  /\ [](gen.pc = "done" => Len(gen.out) <= Len(src))
  /\ [](steps <= 2 * Len(src) + 4)

Codes(ds) == [k \in 1..Len(ds) |-> ds[k].code]
CountCode(ds, code) == Cardinality({k \in 1..Len(ds) : ds[k].code = code})
CountType(toks, type) == Cardinality({k \in 1..Len(toks) : toks[k].type = type})

\* C4: lintText never throws, and when it returns it has analysed every
\* period-delimited statement of the text (one more than the Period tokens).
C4_NeverThrows ==
  \A c \in Sites :
    /\ frame[c].pc # "threw"
    /\ frame[c].pc = "done" =>
         /\ Len(frame[c].statements) = CountType(frame[c].tokens, "Period") + 1
         /\ frame[c].seg = Len(frame[c].statements)

\* C4 witness: a call returned on a malformed text of several statements,
\* one of which ran out of tokens, with diagnostics for it.
C4_Witness ==
  /\ frame["deco"].pc = "done"
  /\ frame["deco"].text = JoinWords(<<kwLet>>) \o <<".", " ">> \o JoinWords(<<kwLet, <<"bet">>>>) \o <<".">>
  /\ Len(diagnostics["deco"]) = 2

\* C5: a second lintText call on the same text returns the list the first
\* call returned.
C5_Deterministic ==
  \A c \in Sites :
    (frame[c].pc = "done" /\ calls[c] >= 2) => diagnostics[c] = returned[c]

\* C5 witness: the second call on a text returned a non-empty list.
C5_Witness ==
  /\ frame["deco"].pc = "done"
  /\ calls["deco"] = 2
  /\ Len(diagnostics["deco"]) >= 2

\* C6: with the steps of the two call sites' lintText calls interleaved, each
\* call returns the list lintText returns on its text when run alone.
C6_Isolated ==
  \A c \in Sites :
    frame[c].pc = "done" => diagnostics[c] = lintText(impl, frame[c].text).diagnostics

\* C6 witness: one call has returned diagnostics while the other call, on a
\* different text, is between two of its steps with diagnostics of its own.
C6_Witness ==
  /\ frame["deco"].pc = "done"
  /\ diagnostics["deco"] # <<>>
  /\ frame["hover"].pc = "pass2"
  /\ frame["hover"].seg > 0
  /\ diagnostics["hover"] # <<>>
  /\ frame["hover"].text # frame["deco"].text

\* C7: every diagnostic of a lintText call has 0 <= from <= to <= len(T) and
\* severity "error".
C7_RangesAndSeverity ==
  \A c \in Sites : \A k \in 1..Len(diagnostics[c]) :
    LET d == diagnostics[c][k] IN
    /\ 0 <= d.from
    /\ d.from <= d.to
    /\ d.to <= Len(frame[c].text)
    /\ d.severity = "error"

\* C7 witness: a returned list that holds the missing-period-between-
\* statements diagnostic and a token-level diagnostic.
C7_Witness ==
  /\ frame["deco"].pc = "done"
  /\ CountCode(diagnostics["deco"], "syntax/missing-period-between-statements") = 1
  /\ CountCode(diagnostics["deco"], "syntax/missing-period") = 1

RECURSIVE DepthsOk(_, _, _)
\* the ParenOpen/ParenClose tokens from position k on are balanced and
\* correctly nested, given the nesting depth before position k
DepthsOk(toks, k, depth) ==
  IF k > Len(toks) THEN depth = 0
  ELSE IF toks[k].type = "ParenOpen" THEN DepthsOk(toks, k + 1, depth + 1)
  ELSE IF toks[k].type = "ParenClose"
  THEN depth > 0 /\ DepthsOk(toks, k + 1, depth - 1)
  ELSE DepthsOk(toks, k + 1, depth)

Balanced(toks) == DepthsOk(toks, 1, 0)

ParenDiagCount(ds) ==
  CountCode(ds, "syntax/unmatched-open-paren")
    + CountCode(ds, "syntax/unmatched-close-paren")

\* C8: a text whose parenthesis tokens are balanced and correctly nested gets
\* no unmatched-open-paren and no unmatched-close-paren diagnostic; "(" gets
\* exactly one unmatched-open-paren and ")" exactly one unmatched-close-paren.
C8_BalancedParens ==
  \A c \in Sites :
    frame[c].pc = "done" =>
      /\ Balanced(frame[c].tokens) => ParenDiagCount(diagnostics[c]) = 0
      /\ frame[c].text = <<"(">> =>
           /\ CountCode(diagnostics[c], "syntax/unmatched-open-paren") = 1
           /\ CountCode(diagnostics[c], "syntax/unmatched-close-paren") = 0
      /\ frame[c].text = <<")">> =>
           /\ CountCode(diagnostics[c], "syntax/unmatched-open-paren") = 0
           /\ CountCode(diagnostics[c], "syntax/unmatched-close-paren") = 1

\* C8 witness: a call returned on a text with nested, balanced parentheses.
C8_Witness ==
  /\ frame["deco"].pc = "done"
  /\ frame["deco"].text = <<"(", "(", "5", ")", ")">>
  /\ diagnostics["deco"] # <<>>

\* C9: a text made only of well-formed assignment statements, separated by
\* white space, gets no diagnostic.
C9_WellFormedClean ==
  \A c \in Sites :
    (frame[c].pc = "done" /\ frame[c].text \in WellFormedTexts \ {<<>>})
      => diagnostics[c] = <<>>

\* C9 holds of the texts whose identifiers are written in Hebrew letters.
C9_HebrewIdentifiersClean ==
  \A c \in Sites :
    (/\ frame[c].pc = "done"
     /\ frame[c].text \in StatementTexts(HebrewAssignments, MaxStmts) \ {<<>>})
      => diagnostics[c] = <<>>

\* C10: "let x equals ." gets exactly one diagnostic, its code is
\* syntax/expected-number or syntax/expected-token, and its range is the
\* period token's, [10, 11).
C10_MissingNumber ==
  \A c \in Sites :
    (frame[c].pc = "done" /\ frame[c].text = ScenarioB) =>
      /\ Len(diagnostics[c]) = 1
      /\ diagnostics[c][1].code \in {"syntax/expected-number", "syntax/expected-token"}
      /\ diagnostics[c][1].from = 10
      /\ diagnostics[c][1].to = 11

\* the diagnostics of one code, in the order they were pushed
WithCode(ds, code) == SelectSeq(ds, LAMBDA d : d.code = code)

\* the ParenOpen at index k of toks is closed by a later ParenClose: the
\* tokens between the two are balanced
MatchedOpen(toks, k) ==
  \E j \in (k + 1)..Len(toks) :
    /\ toks[j].type = "ParenClose"
    /\ Balanced(SubSeq(toks, k + 1, j - 1))

UnmatchedOpens(toks) ==
  {k \in 1..Len(toks) : toks[k].type = "ParenOpen" /\ ~MatchedOpen(toks, k)}

\* C11: when a call returns, its unmatched-open-paren diagnostics are, one
\* each, the ParenOpen tokens no later ParenClose matches, with the range
\* [p, p+1) of the parenthesis, the most recently opened first; "(5 + 3" gets
\* exactly one, at offset 0.
C11_UnmatchedOpens ==
  \A c \in Sites :
    frame[c].pc = "done" =>
      LET toks == frame[c].tokens
          D == WithCode(diagnostics[c], "syntax/unmatched-open-paren")
      IN /\ Len(D) = Cardinality(UnmatchedOpens(toks))
         /\ \A k \in UnmatchedOpens(toks) :
              \E n \in 1..Len(D) : D[n].from = toks[k].from
         /\ \A n \in 1..Len(D) : D[n].to = D[n].from + 1
         /\ \A a \in 1..Len(D) : \A b \in (a + 1)..Len(D) : D[a].from > D[b].from
         /\ frame[c].text = ScenarioC =>
              Len(D) = 1 /\ D[1].from = 0 /\ D[1].to = 1

\* C11 witness: a call returned on a text with a matched pair between two
\* opens that are never closed.
C11_Witness ==
  /\ frame["deco"].pc = "done"
  /\ frame["deco"].text = <<"(", "(", ")", "(">>
  /\ Len(WithCode(diagnostics["deco"], "syntax/unmatched-open-paren")) = 2

\* Operand-like token types: Identifier, Number, ParenClose.
OperandTypes == {"Ident", "Number", "ParenClose"}

NonIgnorable(toks) == {j \in 1..Len(toks) : toks[j].type \notin {"WS", "Comment"}}

\* the nearest non-ignorable token before (after) index k exists and is
\* operand-like
OperandBefore(toks, k) ==
  LET B == {j \in NonIgnorable(toks) : j < k} IN
  B # {} /\ toks[CHOOSE j \in B : \A i \in B : i <= j].type \in OperandTypes

OperandAfter(toks, k) ==
  LET A == {j \in NonIgnorable(toks) : j > k} IN
  A # {} /\ toks[CHOOSE j \in A : \A i \in A : j <= i].type \in OperandTypes

\* how many diagnostics of a code have exactly the range of a token
CountAt(ds, code, tok) ==
  Cardinality({n \in 1..Len(ds) :
                 ds[n].code = code /\ ds[n].from = tok.from /\ ds[n].to = tok.to})

\* C12: every operator other than "-" gets exactly one op-missing-operand at
\* its range when the nearest non-ignorable token before it or after it is
\* not operand-like or is missing, and none otherwise; "5 + ." gets exactly
\* one, at the "+".
C12_BinaryOperators ==
  \A c \in Sites :
    frame[c].pc = "done" =>
      LET toks == frame[c].tokens
          ds == diagnostics[c]
      IN /\ \A k \in 1..Len(toks) :
              (toks[k].type = "Op" /\ toks[k].value # <<"-">>) =>
                CountAt(ds, "syntax/op-missing-operand", toks[k]) =
                  IF OperandBefore(toks, k) /\ OperandAfter(toks, k) THEN 0 ELSE 1
         /\ frame[c].text = ScenarioE =>
              /\ CountCode(ds, "syntax/op-missing-operand") = 1
              /\ \E n \in 1..Len(ds) :
                   /\ ds[n].code = "syntax/op-missing-operand"
                   /\ ds[n].from = 2
                   /\ ds[n].to = 3

\* C12 witness: a call returned on "5 + .", whose "+" has no right operand,
\* with the diagnostic at the "+".
C12_Witness ==
  /\ frame["deco"].pc = "done"
  /\ frame["deco"].text = ScenarioE
  /\ CountAt(diagnostics["deco"], "syntax/op-missing-operand",
             frame["deco"].tokens[3]) = 1

\* "/*" ("*/") begins at offset i of s
OpensAt(s, i) == i + 1 < Len(s) /\ CharAt(s, i) = "/" /\ CharAt(s, i + 1) = "*"
ClosesAt(s, i) == i + 1 < Len(s) /\ CharAt(s, i) = "*" /\ CharAt(s, i + 1) = "/"

Openers(s) == {i \in 0..(Len(s) - 1) : OpensAt(s, i)}

\* the offset of the first "/*" of s; no comment begins before it
FirstOpen(s) == CHOOSE i \in Openers(s) : \A j \in Openers(s) : i <= j

\* the offsets at or after i + 2 where a "*/" begins
ClosersAfter(s, i) == {j \in (i + 2)..(Len(s) - 1) : ClosesAt(s, j)}

Unterminated(s) == Openers(s) # {} /\ ClosersAfter(s, FirstOpen(s)) = {}

\* C13: in a text whose first "/*" has no "*/" after it, the engine's tokens
\* from that "/*" on are a single Comment token that ends at the end of the
\* text, and no unknown-char and no op-missing-operand diagnostic lies inside
\* it; "/* x y" is exactly one Comment token [0, 6).
C13_UnterminatedComment ==
  \A c \in Sites :
    (frame[c].pc = "done" /\ Unterminated(frame[c].text)) =>
      LET text == frame[c].text
          toks == frame[c].tokens
          i == FirstOpen(text)
          inside == {k \in 1..Len(toks) : toks[k].to > i}
      IN /\ \E k \in inside :
              /\ inside = {k}
              /\ toks[k].type = "Comment"
              /\ toks[k].from = i
              /\ toks[k].to = Len(text)
         /\ \A n \in 1..Len(diagnostics[c]) :
              diagnostics[c][n].code
                  \in {"syntax/unknown-char", "syntax/op-missing-operand"}
                => diagnostics[c][n].to <= i
         /\ text = ScenarioF =>
              /\ Len(toks) = 1
              /\ toks[1].type = "Comment" /\ toks[1].from = 0 /\ toks[1].to = 6

\* the arguments made for a position of the text: into [0, L]
Clamped(L, p) == IF p < 0 THEN 0 ELSE IF p > L THEN L ELSE p

\* C14: ensureNonEmptyRange(from, to) returns f = the smaller argument
\* brought into [0, L] and t with 0 <= f <= t <= L; t > f unless f = L, and
\* the range of an empty clamped interval before the end is exactly one unit;
\* the arguments' order does not matter; clamp(p) lies in [0, L], 0 below the
\* text, L above it and p inside.
C14_EnsureNonEmptyRange ==
  LET L == Len(sourceText.text) IN
  /\ lastOp.op = "ensureNonEmptyRange" =>
       LET from == lastOp.args[1]
           to == lastOp.args[2]
           lo == IF from <= to THEN from ELSE to
           hi == IF from <= to THEN to ELSE from
           f == lastOp.result.from
           t == lastOp.result.to
       IN /\ f = Clamped(L, lo)
          /\ 0 <= f /\ f <= t /\ t <= L
          /\ f # L => t > f
          /\ (Clamped(L, hi) = f /\ f < L) => t = f + 1
          /\ Clamped(L, hi) > f => t = Clamped(L, hi)
          /\ lastOp.result = ensureNonEmptyRange(sourceText, to, from)
  /\ lastOp.op = "clamp" =>
       /\ lastOp.result \in 0..L
       /\ lastOp.result = Clamped(L, lastOp.args[1])

\* C14 witness: an empty range before the end of the text was widened.
C14_Witness ==
  /\ lastOp.op = "ensureNonEmptyRange"
  /\ lastOp.args[1] = lastOp.args[2]
  /\ lastOp.args[1] \in 0..(Len(sourceText.text) - 1)
  /\ lastOp.result.to = lastOp.result.from + 1

\* the offsets where a line of the text begins: 0 and right after each "\n"
LineStartSet(text) ==
  {0} \cup {i + 1 : i \in {j \in 0..(Len(text) - 1) : CharAt(text, j) = "\n"}}

\* C15: positionAt(o) returns the line whose start is the greatest line start
\* at or before clamp(o), lines counted from 0, and the column clamp(o) - that
\* start; offsetAt of the returned line and column is clamp(o).
C15_PositionAt ==
  lastOp.op = "positionAt" =>
    LET text == sourceText.text
        pos == Clamped(Len(text), lastOp.args[1])
        before == {s \in LineStartSet(text) : s <= pos}
        start == CHOOSE s \in before : \A r \in before : r <= s
        p == lastOp.result
    IN /\ p.line = Cardinality(before) - 1
       /\ p.column = pos - start
       /\ offsetAt(sourceText, p.line, p.column) = pos

\* C15 witness: positionAt was asked for an offset past the end of a text of
\* two lines or more and answered within the last line.
C15_Witness ==
  /\ lastOp.op = "positionAt"
  /\ lastOp.args[1] > Len(sourceText.text)
  /\ lastOp.result.line >= 1
  /\ lastOp.result.column >= 1

\* C16: when the tokenizer has finished a text whose first "/*", at offset i,
\* has a "*/" beginning at or after i + 2, there is a Comment token from i to
\* right after the first such "*/", whatever "/*" lies between; no other
\* token reaches into it, and the character after it begins a token.
C16_NoNesting ==
  (gen.pc = "done" /\ Openers(src) # {} /\ ClosersAfter(src, FirstOpen(src)) # {}) =>
    LET i == FirstOpen(src)
        close == CHOOSE j \in ClosersAfter(src, i) :
                   \A k \in ClosersAfter(src, i) : j <= k
        end == close + 2
        out == gen.out
    IN /\ \E k \in 1..Len(out) :
            /\ out[k].type = "Comment" /\ out[k].from = i /\ out[k].to = end
            /\ \A n \in 1..Len(out) :
                 n # k => (out[n].to <= i \/ out[n].from >= end)
       /\ end < Len(src) => \E n \in 1..Len(out) : out[n].from = end

\* the non-ignorable tokens that lie before token k in the text
Preceding(toks, k) == {j \in NonIgnorable(toks) : toks[j].from < toks[k].from}

\* the index of the token of the non-empty set S that lies last in the text
LastOf(toks, S) == CHOOSE j \in S : \A i \in S : toks[i].from <= toks[j].from

C19_Minus ==
  \A c \in Sites :
    frame[c].pc = "done" =>
      LET toks == frame[c].tokens IN
      \A k \in 1..Len(toks) :
        (toks[k].type = "Op" /\ toks[k].value = <<"-">>) =>
          CountAt(diagnostics[c], "syntax/op-missing-operand", toks[k]) =
            IF OperandAfter(toks, k) THEN 0 ELSE 1

\* C19 witness: a call returned on "--5": the first minus is followed by an
\* operator and has the diagnostic, the second has no operand before it and
\* a number after it and has none.
C19_Witness ==
  /\ frame["deco"].pc = "done"
  /\ frame["deco"].text = <<"-", "-", "5">>
  /\ CountAt(diagnostics["deco"], "syntax/op-missing-operand",
             frame["deco"].tokens[1]) = 1
  /\ CountAt(diagnostics["deco"], "syntax/op-missing-operand",
             frame["deco"].tokens[2]) = 0

\* the ranges of a list of tokens or diagnostics, in order
Ranges(xs) == [k \in 1..Len(xs) |-> <<xs[k].from, xs[k].to>>]

\* C20: the unknown-char diagnostics of a call are, in order, the ranges of
\* the Unknown tokens of the text: one per token, none for any other token.
C20_UnknownChars ==
  \A c \in Sites :
    frame[c].pc = "done" =>
      Ranges(WithCode(diagnostics[c], "syntax/unknown-char"))
        = Ranges(SelectSeq(frame[c].tokens, LAMBDA t : t.type = "Unknown"))

\* C20 witness: a call returned on "#5#", two unknown characters around a
\* number.
C20_Witness ==
  /\ frame["deco"].pc = "done"
  /\ frame["deco"].text = <<"#", "5", "#">>
  /\ Ranges(WithCode(diagnostics["deco"], "syntax/unknown-char"))
       = <<<<0, 1>>, <<2, 3>>>>

\* ------------------------------------------------------------------------
\* Statements, read off the token list without the engine's segmentation
\* ------------------------------------------------------------------------
PeriodsBefore(toks, j) ==
  Cardinality({i \in 1..(j - 1) : toks[i].type = "Period"})

StatementNumbers(toks) == 0..CountType(toks, "Period")

\* the indices of the non-ignorable tokens of statement n (0-based n): those
\* with n Period tokens before them, the periods themselves left out
StatementIdx(toks, n) ==
  {j \in 1..Len(toks) :
     /\ toks[j].type \notin {"WS", "Comment", "Period"}
     /\ PeriodsBefore(toks, j) = n}

\* the token at 0-based position p of the index set S, or Undefined
Nth(toks, S, p) ==
  IF p < 0 \/ p >= Cardinality(S) THEN Undefined
  ELSE toks[CHOOSE j \in S : Cardinality({i \in S : i < j}) = p]

FirstTok(toks, S) == Nth(toks, S, 0)
LastTok(toks, S) == Nth(toks, S, Cardinality(S) - 1)

\* how many diagnostics of a code have exactly the range [from, to)
CountRange(ds, code, from, to) ==
  Cardinality({n \in 1..Len(ds) :
                 ds[n].code = code /\ ds[n].from = from /\ ds[n].to = to})

\* the diagnostics whose code is in Cs and whose range lies in the span of
\* the statement with index set S
InStatement(ds, Cs, toks, S) ==
  SelectSeq(ds, LAMBDA d :
    /\ d.code \in Cs
    /\ FirstTok(toks, S).from <= d.from
    /\ d.to <= LastTok(toks, S).to)

\* C21: every statement with a non-ignorable token whose first one is not a
\* Keyword gets exactly one invalid-statement diagnostic, from the start of
\* its first non-ignorable token to the end of its last.
C21_InvalidStatement ==
  \A c \in Sites :
    frame[c].pc = "done" =>
      LET toks == frame[c].tokens IN
      \A n \in StatementNumbers(toks) :
        LET S == StatementIdx(toks, n) IN
        (S # {} /\ FirstTok(toks, S).type # "Keyword") =>
          CountRange(diagnostics[c], "syntax/invalid-statement",
                     FirstTok(toks, S).from, LastTok(toks, S).to) = 1

\* C22: every statement whose leading token is a Keyword other than "let",
\* the one keyword with a statement shape, gets unknown-statement over the
\* whole statement and no invalid-statement.
C22_UnknownStatement ==
  \A c \in Sites :
    frame[c].pc = "done" =>
      LET toks == frame[c].tokens IN
      \A n \in StatementNumbers(toks) :
        LET S == StatementIdx(toks, n) IN
        ( /\ S # {}
          /\ FirstTok(toks, S).type = "Keyword"
          /\ FirstTok(toks, S).value # kwLet ) =>
          /\ CountRange(diagnostics[c], "syntax/unknown-statement",
                        FirstTok(toks, S).from, LastTok(toks, S).to) = 1
          /\ Len(InStatement(diagnostics[c], {"syntax/invalid-statement"},
                             toks, S)) = 0

LetCount(toks, S) ==
  Cardinality({j \in S : toks[j].type = "Keyword" /\ toks[j].value = kwLet})

\* the statements pass 2 walks against the assignment shape: led by "let",
\* without a second "let"
Walked(toks, S) ==
  /\ S # {}
  /\ FirstTok(toks, S).type = "Keyword"
  /\ FirstTok(toks, S).value = kwLet
  /\ LetCount(toks, S) = 1

\* the shape  let <Ident> equals <Number>: what position p (1..3) accepts
Fits(t, p) ==
  /\ t # Undefined
  /\ IF p = 1 THEN t.type = "Ident"
     ELSE IF p = 2 THEN t.type = "Keyword" /\ t.value = kwEquals
     ELSE t.type = "Number"

Mismatches(toks, S) == {p \in 1..3 : ~Fits(Nth(toks, S, p), p)}
FirstMismatch(toks, S) ==
  CHOOSE p \in Mismatches(toks, S) : \A q \in Mismatches(toks, S) : p <= q

ShapeCodes ==
  {"syntax/var-assign-expected-ident", "syntax/var-assign-expected-shaveh",
   "syntax/var-assign-expected-number"}

\* C23: a walked statement that does not fit its shape gets its mismatch
\* diagnostic at the range of the token at the first mismatching position,
\* and at the range of the leading keyword when the statement has no token
\* at that position.
C23_MismatchPosition ==
  \A c \in Sites :
    frame[c].pc = "done" =>
      LET toks == frame[c].tokens IN
      \A n \in StatementNumbers(toks) :
        LET S == StatementIdx(toks, n) IN
        (Walked(toks, S) /\ Mismatches(toks, S) # {}) =>
          LET at == Nth(toks, S, FirstMismatch(toks, S))
              anchor == IF at # Undefined THEN at ELSE FirstTok(toks, S)
              D == InStatement(diagnostics[c], ShapeCodes, toks, S)
          IN /\ Len(D) = 1
             /\ D[1].from = anchor.from
             /\ D[1].to = anchor.to

\* the codes pass 2 pushes
Pass2Codes ==
  ShapeCodes \cup
    {"syntax/invalid-statement", "syntax/unknown-statement",
     "syntax/statement-extra-tokens",
     "syntax/missing-period-between-statements"}

CountCodes(ds, Cs) == Cardinality({k \in 1..Len(ds) : ds[k].code \in Cs})

NonEmptyStatements(toks) ==
  {n \in StatementNumbers(toks) : StatementIdx(toks, n) # {}}

\* C24: a call returns at most one statement-level diagnostic within each
\* statement, and no more of them in all than there are statements with a
\* non-ignorable token: statements of whitespace and comments get none.
C24_OnePerStatement ==
  \A c \in Sites :
    frame[c].pc = "done" =>
      LET toks == frame[c].tokens IN
      /\ \A n \in NonEmptyStatements(toks) :
           Len(InStatement(diagnostics[c], Pass2Codes, toks,
                           StatementIdx(toks, n))) <= 1
      /\ CountCodes(diagnostics[c], Pass2Codes)
           <= Cardinality(NonEmptyStatements(toks))

\* C24 witness: a call returned on two malformed statements and an empty
\* third one, with one statement-level diagnostic for each of the two.
C24_Witness ==
  /\ frame["deco"].pc = "done"
  /\ CountType(frame["deco"].tokens, "Period") = 2
  /\ Cardinality(NonEmptyStatements(frame["deco"].tokens)) = 2
  /\ CountCodes(diagnostics["deco"], Pass2Codes) = 2

\* the statement is led by "let", fits the whole shape and has more tokens
FitsWithExtra(toks, S) ==
  /\ Cardinality(S) > 4
  /\ FirstTok(toks, S).type = "Keyword"
  /\ FirstTok(toks, S).value = kwLet
  /\ Mismatches(toks, S) = {}

ExtraTokensCount(ds, toks, S) ==
  CountRange(ds, "syntax/statement-extra-tokens",
             Nth(toks, S, 4).from, LastTok(toks, S).to)

\* C25: a statement whose tokens fit its whole shape and that has further
\* non-ignorable tokens before the next period gets exactly one
\* statement-extra-tokens diagnostic, from the start of the first extra token
\* to the end of the statement's last non-ignorable token.
C25_ExtraTokens ==
  \A c \in Sites :
    frame[c].pc = "done" =>
      LET toks == frame[c].tokens IN
      \A n \in StatementNumbers(toks) :
        LET S == StatementIdx(toks, n) IN
        FitsWithExtra(toks, S) =>
          ExtraTokensCount(diagnostics[c], toks, S) = 1

\* C25 as amended: the same, for statements whose extra tokens do not hold
\* the leading keyword again (those are merged statements and get
\* missing-period-between-statements instead).
C25_ExtraTokensNoRepeat ==
  \A c \in Sites :
    frame[c].pc = "done" =>
      LET toks == frame[c].tokens IN
      \A n \in StatementNumbers(toks) :
        LET S == StatementIdx(toks, n) IN
        (FitsWithExtra(toks, S) /\ LetCount(toks, S) = 1) =>
          /\ ExtraTokensCount(diagnostics[c], toks, S) = 1
          /\ Len(InStatement(diagnostics[c], Pass2Codes, toks, S)) = 1

\* C25 witness: a call returned on "let bet equals 5 3", one number too many.
C25_Witness ==
  /\ frame["deco"].pc = "done"
  /\ frame["deco"].text = JoinWords(<<kwLet, <<"bet">>, kwEquals, <<"5">>, <<"3">>>>)
  /\ CountRange(diagnostics["deco"], "syntax/statement-extra-tokens", 12, 13) = 1

\* the indices in S of the tokens that are the statement's leading keyword
LeadingAgain(toks, S) ==
  {j \in S : toks[j].type = "Keyword" /\ toks[j].value = FirstTok(toks, S).value}

\* the statement repeats its own leading keyword
Merged(toks, S) ==
  /\ S # {}
  /\ FirstTok(toks, S).type = "Keyword"
  /\ Cardinality(LeadingAgain(toks, S)) >= 2

\* the index of the second occurrence, and of the token of S right before it
SecondOccurrence(toks, S) ==
  CHOOSE j \in LeadingAgain(toks, S) :
    Cardinality({i \in LeadingAgain(toks, S) : i < j}) = 1

Before(S, j) == CHOOSE i \in S : i < j /\ \A k \in S : k < j => k <= i

\* C26: a statement that repeats its own leading keyword gets exactly one
\* statement-level diagnostic, missing-period-between-statements, lying
\* between the end of the token before the second occurrence and the start
\* of that occurrence; a statement that does not lead with a repeated keyword
\* gets no missing-period-between-statements.
C26_MergedStatements ==
  \A c \in Sites :
    frame[c].pc = "done" =>
      LET toks == frame[c].tokens IN
      \A n \in NonEmptyStatements(toks) :
        LET S == StatementIdx(toks, n)
            D == InStatement(diagnostics[c], Pass2Codes, toks, S)
        IN IF Merged(toks, S)
           THEN LET second == SecondOccurrence(toks, S) IN
                /\ Len(D) = 1
                /\ D[1].code = "syntax/missing-period-between-statements"
                /\ toks[Before(S, second)].to <= D[1].from
                /\ D[1].to <= toks[second].from
           ELSE \A k \in 1..Len(D) :
                  D[k].code # "syntax/missing-period-between-statements"

\* the tokens of the index set S, in order
TokensOf(toks, S) == [p \in 1..Cardinality(S) |-> Nth(toks, S, p - 1)]

\* what pass 2 pushes for a statement given alone: its own non-ignorable
\* tokens as the whole token list
Alone(stmt) ==
  IF stmt = <<>> THEN <<>>
  ELSE CheckStatement(stmt, [startIdx |-> 0, endIdx |-> Len(stmt) - 1]).diags

RECURSIVE AloneFrom(_, _)
\* the same for the statements n, n + 1, ... of a token list, in order
AloneFrom(toks, n) ==
  IF n > CountType(toks, "Period") THEN <<>>
  ELSE Alone(TokensOf(toks, StatementIdx(toks, n))) \o AloneFrom(toks, n + 1)

\* C27: the statement-level diagnostics of a call are, statement by
\* statement, the ones each statement gets from its own non-ignorable tokens
\* alone: a malformed statement changes nothing for the others.
C27_Independent ==
  \A c \in Sites :
    frame[c].pc = "done" =>
      SelectSeq(diagnostics[c], LAMBDA d : d.code \in Pass2Codes)
        = AloneFrom(frame[c].tokens, 0)

\* C27 witness: a call returned on a well-formed statement followed by one
\* that lacks its second half, with the one diagnostic of the latter.
C27_Witness ==
  /\ frame["deco"].pc = "done"
  /\ frame["deco"].text =
       Assignment(<<"bet">>, <<"5">>) \o <<" ">>
         \o JoinWords(<<kwLet, <<"bet">>>>) \o <<".">>
  /\ CountCodes(diagnostics["deco"], Pass2Codes) = 1
  /\ CountCode(diagnostics["deco"], "syntax/var-assign-expected-shaveh") = 1

\* the offsets of the opens that the first k tokens leave unmatched, in
\* opening order
OpenPositions(toks, k) ==
  LET prefix == SubSeq(toks, 1, k)
      U == UnmatchedOpens(prefix)
  IN [p \in 1..Cardinality(U) |-> Nth(prefix, U, p - 1).from]

\* C28: at every point of the token scan the paren stack holds the offsets of
\* the opens not yet matched, in opening order; and when the call returns,
\* unmatched-open-paren diagnostics minus unmatched-close-paren diagnostics
\* is ParenOpen tokens minus ParenClose tokens.
C28_ParenAccounting ==
  \A c \in Sites :
    /\ frame[c].pc = "pass1" =>
         frame[c].parenStack = OpenPositions(frame[c].tokens, frame[c].idx)
    /\ frame[c].pc = "done" =>
         CountCode(diagnostics[c], "syntax/unmatched-open-paren")
             - CountCode(diagnostics[c], "syntax/unmatched-close-paren")
           = CountType(frame[c].tokens, "ParenOpen")
               - CountType(frame[c].tokens, "ParenClose")

\* C28 witness: the scan of "(()()" after its third token: the inner pair is
\* matched and the stack holds the first open alone.
C28_Witness ==
  /\ frame["deco"].pc = "pass1"
  /\ frame["deco"].text = <<"(", "(", ")", "(", ")">>
  /\ frame["deco"].idx = 3
  /\ frame["deco"].parenStack = <<0>>

\* a text of L code units
TextOfLength(L) == [k \in 1..L |-> "5"]

C30_CancelReverts ==
  /\ [][(page = "ready" /\ page' = "saving") => textArea' = OpenedContent]_vars
  /\ [](page # "loading" => Len(history.stack) \in 1..limit)

====
